---- MODULE Spec2Model ----
(***************************************************************************)
(* Model of the structured-field construction and rebuild pipeline of the  *)
(* ANARI DRR viewer (src/viewer.cpp): Application::setupWindows, the       *)
(* lookup-table callback registered with setUpdateLacLutCallback, and      *)
(* Application::teardown, over a reference-counted store of device         *)
(* objects.                                                                *)
(*                                                                         *)
(* Handles are positive integers, 0 is the null handle.  Every device      *)
(* object carries the number of references the application holds on it     *)
(* (refs), the number of release calls the application has made on it      *)
(* (rels), its staged parameters and its committed (current) parameters.   *)
(***************************************************************************)
EXTENDS Integers, Sequences, FiniteSets, TLC

\* ------------------------------------------------------------------ bounds
MaxRebuilds == 2          \* lookup-table changes handled in one run
NumLuts == 2              \* size of the lookup-table catalog read at startup
MaxDim == 2               \* largest extent of a voxel grid along one axis

\* --------------------------------------------------------------- constants
NULL == 0

VARIABLES
  requested,     \* g_laclutid at startup, then the callback's lacLutId
  queried,       \* the reader whose getField was called last
  sampled,       \* the volume the frame now being drawn has sampled
  pc,            \* position of the main thread
  objs,          \* device objects, indexed by handle
  worldCommits,  \* number of commitParameters calls on the world
  g_device,      \* file-scope g_device: "null" or "dev"
  g_dims,        \* file-scope g_dimX, g_dimY, g_dimZ
  g_bytesPerCell,
  g_voxelRange,
  m_device,      \* m_state.device
  m_world,       \* m_state.world
  m_field,       \* m_state.field
  m_sdata,       \* m_state.sdata
  sdataVer,      \* number of assignments made to m_state.sdata
  lacActive,     \* m_state.lacReader active lookup table
  rawOpened,     \* m_state.rawReader holds an open file
  niftiOpened,   \* m_state.niftiReader holds an open file
  niftiSrc,      \* what the medical-image source yields per lookup table
  volume,        \* the local variable "volume" of the running handler
  deviceRefs,    \* references the application holds on the device
  trigger,       \* the trigger being handled, "none" when idle
  gens,          \* history: one entry per completed trigger
  rebuilds       \* history: number of lookup-table changes handled

vars == <<pc, objs, worldCommits, g_device, g_dims, g_bytesPerCell,
          g_voxelRange, m_device, m_world, m_field, m_sdata, sdataVer,
          lacActive, rawOpened, niftiOpened, niftiSrc, volume, deviceRefs,
          trigger, gens, rebuilds,
          requested, queried, sampled>>

\* ------------------------------------------------------ input value sets
\* voxel value ranges a source may report (low, high)
Ranges == {<<128, 128>>, <<-1, 3>>}
\* bytes per cell a reader may report: 1, 2, 4 are dispatched, 8 is not
BytesPerCell == {1, 2, 4, 8}
\* grid extents given on the command line or guessed from the file name
GridDims == {<<1, 2, MaxDim>>}
\* grid extents of the medical-image file
NiftiDims == {<<MaxDim, 1, 1>>}
\* lookup-table indices the settings editor or --lut may deliver
LutIds == 0..NumLuts

\* value range of the medical-image data under each lookup table: the same
\* under all of them, or alternating between two
LutRanges ==
  {[i \in LutIds |-> <<128, 128>>],
   [i \in LutIds |-> IF i % 2 = 0 THEN <<-1, 3>> ELSE <<128, 128>>]}

\* a value that is not a handle of the device (a wild pointer)
WILD == -1

StructuredField(dims, bpc, range, ok) ==
  [dimX |-> dims[1], dimY |-> dims[2], dimZ |-> dims[3],
   bytesPerCell |-> bpc, dataRange |-> range, valid |-> ok]

\* StructuredField sdata of a freshly constructed AppState
EmptyField == StructuredField(<<0, 0, 0>>, 0, <<0, 0>>, FALSE)

\* ------------------------------------------------- rendering-API surface
NoParams == [x \in {} |-> NULL]

Put(f, k, v) == [x \in (DOMAIN f) \cup {k} |-> IF x = k THEN v ELSE f[x]]

Object(kind, type, ext, mem, items) ==
  [kind |-> kind, refs |-> 1, rels |-> 0,
   staged |-> NoParams, current |-> NoParams,
   elemType |-> type, ext |-> ext, mem |-> mem, items |-> items]

NoMem == [vec |-> "none", ver |-> 0]

\* anari::newObject<T>: a new object with one application reference
newObject(os, kind) == Append(os, Object(kind, "none", <<>>, NoMem, <<>>))

\* anariNewArray3D over application memory
anariNewArray3D(os, mem, type, n1, n2, n3) ==
  Append(os, Object("array", type, <<n1, n2, n3>>, mem, <<>>))

\* anari::newArray1D over n items of application memory
newArray1D(os, type, items, n) ==
  Append(os, Object("array", type, <<n>>, NoMem, items))

\* anari::setParameter: stages a value, visible after the next commit
setParameter(os, o, name, v) ==
  [os EXCEPT ![o].staged = Put(@, name, v)]

\* anari::release: gives up one application reference; null is ignored
release(os, o) ==
  IF o = NULL THEN os
  ELSE [os EXCEPT ![o].refs = @ - 1, ![o].rels = @ + 1]

\* anari::setAndReleaseParameter: setParameter, then release of the value
setAndReleaseParameter(os, o, name, v) ==
  release(setParameter(os, o, name, v), v)

\* anari::commitParameters: staged parameters become current
commitParameters(os, o) == [os EXCEPT ![o].current = os[o].staged]

\* parameters whose value is an object handle
ObjectParams == {"data", "value", "field", "color", "opacity", "volume"}

\* handles an object keeps alive: its parameters and its array items
Refs(os, o) ==
  {os[o].staged[n] : n \in (DOMAIN os[o].staged) \cap ObjectParams}
    \cup {os[o].current[n] : n \in (DOMAIN os[o].current) \cap ObjectParams}
    \cup {os[o].items[i] : i \in DOMAIN os[o].items}

RECURSIVE Reach(_, _)
Reach(os, S) ==
  LET T == S \cup ((UNION {Refs(os, o) : o \in S}) \cap (1..Len(os)))
  IN IF T = S THEN S ELSE Reach(os, T)

\* objects the device has not destroyed: referenced by the application or
\* by a live object
Alive(os) == Reach(os, {o \in 1..Len(os) : os[o].refs > 0})

\* values an uninitialized handle variable may hold when it is read: null,
\* a wild pointer, or the bits of a handle the function has at hand (the
\* field it has just created)
Indeterminate(os) == {NULL, WILD, Len(os) + 1}

\* ----------------------------------------------------------- the sources
\* RAWReader::getField(0) after open(file, dimX, dimY, dimZ, bytesPerCell)
RawGetField(dims, bpc, range) == StructuredField(dims, bpc, range, TRUE)

\* NiftiReader::open: what the opened file holds, per lookup table: one
\* grid and cell width, a value range per table, failure for an index
\* outside the catalog
NiftiFiles ==
  {[i \in LutIds |-> StructuredField(d, b, r[i], i < NumLuts)] :
     d \in NiftiDims, b \in BytesPerCell, r \in LutRanges}

\* NiftiReader::getField(0, lacReader): the channel under the catalog's
\* active lookup table; a reader that holds no open file yields no data
NiftiGetField(opened, src, lut) == IF opened THEN src[lut] ELSE EmptyField

\* LacReader::setActiveLut
setActiveLut(lut) == lut

\* ------------------------------------------------------------------ Init
Init ==
  /\ pc = "boot"
  /\ objs = <<>>
  /\ worldCommits = 0
  /\ g_device = "null"
  /\ \/ g_dims = <<0, 0, 0>> /\ g_bytesPerCell = 0
     \/ g_dims \in GridDims /\ g_bytesPerCell \in BytesPerCell
  /\ g_voxelRange = <<0, 0>>
  /\ m_device = "null"
  /\ m_world = NULL
  /\ m_field = NULL
  /\ m_sdata = EmptyField
  /\ sdataVer = 0
  /\ lacActive = 0
  /\ rawOpened = FALSE
  /\ niftiOpened = FALSE
  /\ niftiSrc = [i \in LutIds |-> EmptyField]
  /\ volume = NULL
  /\ deviceRefs = 0
  /\ trigger = "none"
  /\ gens = <<>>
  /\ rebuilds = 0
  /\ requested = 0
  /\ queried = "none"
  /\ sampled = NULL

\* ------------------------------------------------- initializeANARI()
\* libOk: anariLoadLibrary(g_libraryName) returned a library
\* devOk: anariNewDevice(library, "default") returned a device
\* debug: g_enableDebug;  dbgOk: anariNewDevice(g_debug, "debug") did
\* tolerant: the library returns from a call made on a null device instead
\*           of faulting
initializeANARI(libOk, devOk, debug, dbgOk, tolerant) ==
  IF ~libOk THEN "throw"
  ELSE IF (~devOk \/ (debug /\ ~dbgOk)) /\ ~tolerant THEN "crash"
  ELSE IF debug
       THEN IF ~dbgOk THEN "null"
            ELSE IF devOk THEN "dev" ELSE "dbg_nowrap"
       ELSE IF devOk THEN "dev" ELSE "null"

\* ----------------------------------------------- Application::setupWindows
\* lines 207-247: guess extents and cell width from a .raw file name
SetupGuess ==
  /\ pc = "boot"
  /\ \E isRaw \in BOOLEAN :
       IF isRaw /\ g_dims = <<0, 0, 0>> /\ g_bytesPerCell = 0
       THEN \E d \in {<<0, 0, 0>>} \cup GridDims, b \in BytesPerCell :
              /\ g_dims' = d
              /\ g_bytesPerCell' = b
       ELSE UNCHANGED <<g_dims, g_bytesPerCell>>
  /\ trigger' = "startup"
  /\ pc' = "anari"
  /\ UNCHANGED <<objs, worldCommits, g_device, g_voxelRange, m_device,
                 m_world, m_field, m_sdata, sdataVer, lacActive, rawOpened,
                 niftiOpened, niftiSrc, volume, deviceRefs, gens, rebuilds>>
  /\ UNCHANGED <<requested, queried, sampled>>

\* the check of g_device at lines 253-256
DeviceUsable(dev) == dev # "null"

\* lines 251-259: load the device, leave if there is none, create the world
SetupANARI ==
  /\ pc = "anari"
  /\ \E libOk, devOk, debug, dbgOk, tolerant \in BOOLEAN :
       LET r == initializeANARI(libOk, devOk, debug, dbgOk, tolerant)
       IN IF r \in {"throw", "crash"}
          THEN /\ pc' = IF r = "throw" THEN "exited" ELSE "crashed"
               /\ UNCHANGED <<objs, g_device, m_device, m_world, deviceRefs>>
          ELSE /\ g_device' = r
               /\ IF DeviceUsable(r)
                  THEN /\ m_device' = r
                       /\ deviceRefs' = 1
                       /\ objs' = newObject(objs, "world")
                       /\ m_world' = Len(objs) + 1
                       /\ pc' = "scene"
                  ELSE /\ pc' = "exited"
                       /\ UNCHANGED <<objs, m_device, m_world, deviceRefs>>
  /\ UNCHANGED <<worldCommits, g_dims, g_bytesPerCell, g_voxelRange, m_field,
                 m_sdata, sdataVer, lacActive, rawOpened, niftiOpened,
                 niftiSrc, volume, trigger, gens, rebuilds>>
  /\ UNCHANGED <<requested, queried, sampled>>

\* the three-way dispatch on data.bytesPerCell matched one of its cases
Dispatched(data) == data.bytesPerCell \in {1, 2, 4}

\* lines 274-311: field over the raw reader's data, extents g_dimX/Y/Z;
\* u is what the local "scalar" holds when no case assigned it
RawField(os, data, dims, ver, u) ==
  LET field == Len(os) + 1
      os1 == newObject(os, "field")
      os2 == IF data.bytesPerCell = 1
             THEN anariNewArray3D(os1, [vec |-> "dataUI8", ver |-> ver],
                                  "UFIXED8", dims[1], dims[2], dims[3])
             ELSE IF data.bytesPerCell = 2
             THEN anariNewArray3D(os1, [vec |-> "dataUI16", ver |-> ver],
                                  "UFIXED16", dims[1], dims[2], dims[3])
             ELSE IF data.bytesPerCell = 4
             THEN anariNewArray3D(os1, [vec |-> "dataF32", ver |-> ver],
                                  "FLOAT32", dims[1], dims[2], dims[3])
             ELSE os1
      scalar == IF Dispatched(data) THEN Len(os2) ELSE u
      os3 == setAndReleaseParameter(os2, field, "data", scalar)
      os4 == setParameter(os3, field, "filter", "linear")
  IN commitParameters(os4, field)

\* lines 321-358: field over the medical-image reader's data, extents
\* data.dimX/Y/Z
NiftiField(os, data, ver, u) ==
  LET field == Len(os) + 1
      os1 == newObject(os, "field")
      os2 == IF data.bytesPerCell = 1
             THEN anariNewArray3D(os1, [vec |-> "dataUI8", ver |-> ver],
                                  "UFIXED8", data.dimX, data.dimY, data.dimZ)
             ELSE IF data.bytesPerCell = 2
             THEN anariNewArray3D(os1, [vec |-> "dataUI16", ver |-> ver],
                                  "UFIXED16", data.dimX, data.dimY, data.dimZ)
             ELSE IF data.bytesPerCell = 4
             THEN anariNewArray3D(os1, [vec |-> "dataF32", ver |-> ver],
                                  "FLOAT32", data.dimX, data.dimY, data.dimZ)
             ELSE os1
      scalar == IF Dispatched(data) THEN Len(os2) ELSE u
      os3 == setAndReleaseParameter(os2, field, "data", scalar)
      os4 == setParameter(os3, field, "filter", "linear")
  IN commitParameters(os4, field)

\* LutField with the 8-bit element type chosen for two-byte cells
LutField_WrongType(os, data, ver, u) ==
  LET field == Len(os) + 1
      os1 == newObject(os, "field")
      os2 == IF data.bytesPerCell = 1
             THEN anariNewArray3D(os1, [vec |-> "dataUI8", ver |-> ver],
                                  "UFIXED8", data.dimX, data.dimY, data.dimZ)
             ELSE IF data.bytesPerCell = 2
             THEN anariNewArray3D(os1, [vec |-> "dataUI16", ver |-> ver],
                                  "UFIXED8", data.dimX, data.dimY, data.dimZ)
             ELSE IF data.bytesPerCell = 4
             THEN anariNewArray3D(os1, [vec |-> "dataF32", ver |-> ver],
                                  "FLOAT32", data.dimX, data.dimY, data.dimZ)
             ELSE os1
      scalar == IF Dispatched(data) THEN Len(os2) ELSE u
      os3 == setAndReleaseParameter(os2, field, "data", scalar)
      os4 == setParameter(os3, field, "filter", "linear")
  IN commitParameters(os4, field)

\* LutField creating the field object twice
LutField_TwoFields(os, data, ver, u) ==
  LET field == Len(os) + 1
      os1 == newObject(newObject(os, "field"), "field")
      os2 == IF data.bytesPerCell = 1
             THEN anariNewArray3D(os1, [vec |-> "dataUI8", ver |-> ver],
                                  "UFIXED8", data.dimX, data.dimY, data.dimZ)
             ELSE IF data.bytesPerCell = 2
             THEN anariNewArray3D(os1, [vec |-> "dataUI16", ver |-> ver],
                                  "UFIXED16", data.dimX, data.dimY, data.dimZ)
             ELSE IF data.bytesPerCell = 4
             THEN anariNewArray3D(os1, [vec |-> "dataF32", ver |-> ver],
                                  "FLOAT32", data.dimX, data.dimY, data.dimZ)
             ELSE os1
      scalar == IF Dispatched(data) THEN Len(os2) ELSE u
      os3 == setAndReleaseParameter(os2, field, "data", scalar)
      os4 == setParameter(os3, field, "filter", "linear")
  IN commitParameters(os4, field)

\* lines 459-495: the same construction inside the lookup-table callback
LutField(os, data, ver, u) ==
  LET field == Len(os) + 1
      os1 == newObject(os, "field")
      os2 == IF data.bytesPerCell = 1
             THEN anariNewArray3D(os1, [vec |-> "dataUI8", ver |-> ver],
                                  "UFIXED8", data.dimX, data.dimY, data.dimZ)
             ELSE IF data.bytesPerCell = 2
             THEN anariNewArray3D(os1, [vec |-> "dataUI16", ver |-> ver],
                                  "UFIXED16", data.dimX, data.dimY, data.dimZ)
             ELSE IF data.bytesPerCell = 4
             THEN anariNewArray3D(os1, [vec |-> "dataF32", ver |-> ver],
                                  "FLOAT32", data.dimX, data.dimY, data.dimZ)
             ELSE os1
      scalar == IF Dispatched(data) THEN Len(os2) ELSE u
      os3 == setAndReleaseParameter(os2, field, "data", scalar)
      os4 == setParameter(os3, field, "filter", "linear")
  IN commitParameters(os4, field)

\* lines 367-394: transfer-function volume over m_state.field with the
\* fixed ramp (3 colors, 2 opacities) and g_voxelRange
SetupVolumeObj(os, fld, range) ==
  LET vol == Len(os) + 1
      os1 == newObject(os, "volume")
      os2 == setParameter(os1, vol, "value", fld)
      os3 == setParameter(os2, vol, "field", fld)
      os4 == newArray1D(os3, "FLOAT32_VEC3", <<>>, 3)
      os5 == setAndReleaseParameter(os4, vol, "color", Len(os4))
      os6 == newArray1D(os5, "FLOAT32", <<>>, 2)
      os7 == setAndReleaseParameter(os6, vol, "opacity", Len(os6))
      os8 == setParameter(os7, vol, "valueRange", range)
  IN commitParameters(os8, vol)

\* LutVolumeObj giving up the volume reference before the volume is bound
LutVolumeObj_ReleasesEarly(os, fld, range) ==
  LET vol == Len(os) + 1
      os1 == newObject(os, "volume")
      os2 == setParameter(os1, vol, "value", fld)
      os3 == setParameter(os2, vol, "field", fld)
      os4 == newArray1D(os3, "FLOAT32_VEC3", <<>>, 3)
      os5 == setAndReleaseParameter(os4, vol, "color", Len(os4))
      os6 == newArray1D(os5, "FLOAT32", <<>>, 2)
      os7 == setAndReleaseParameter(os6, vol, "opacity", Len(os6))
      os8 == setParameter(os7, vol, "valueRange", range)
  IN release(commitParameters(os8, vol), vol)

\* LutVolumeObj setting the field under "field" only, not under "value"
LutVolumeObj_FieldOnly(os, fld, range) ==
  LET vol == Len(os) + 1
      os1 == newObject(os, "volume")
      os3 == setParameter(os1, vol, "field", fld)
      os4 == newArray1D(os3, "FLOAT32_VEC3", <<>>, 3)
      os5 == setAndReleaseParameter(os4, vol, "color", Len(os4))
      os6 == newArray1D(os5, "FLOAT32", <<>>, 2)
      os7 == setAndReleaseParameter(os6, vol, "opacity", Len(os6))
      os8 == setParameter(os7, vol, "valueRange", range)
  IN commitParameters(os8, vol)

\* lines 503-531: the same construction inside the lookup-table callback
LutVolumeObj(os, fld, range) ==
  LET vol == Len(os) + 1
      os1 == newObject(os, "volume")
      os2 == setParameter(os1, vol, "value", fld)
      os3 == setParameter(os2, vol, "field", fld)
      os4 == newArray1D(os3, "FLOAT32_VEC3", <<>>, 3)
      os5 == setAndReleaseParameter(os4, vol, "color", Len(os4))
      os6 == newArray1D(os5, "FLOAT32", <<>>, 2)
      os7 == setAndReleaseParameter(os6, vol, "opacity", Len(os6))
      os8 == setParameter(os7, vol, "valueRange", range)
  IN commitParameters(os8, vol)

\* lines 397-398: a one-element array holding the volume becomes the
\* world's staged "volume" parameter
SetupBindObj(os, world, vol) ==
  LET os1 == newArray1D(os, "VOLUME", <<vol>>, 1)
  IN setAndReleaseParameter(os1, world, "volume", Len(os1))

\* LutBindObj adding the volume to the list already staged on the world
LutBindObj_Appends(os, world, vol) ==
  LET old == IF "volume" \in DOMAIN os[world].staged
             THEN os[os[world].staged.volume].items ELSE <<>>
      os1 == newArray1D(os, "VOLUME", Append(old, vol), Len(old) + 1)
  IN setAndReleaseParameter(os1, world, "volume", Len(os1))

\* lines 534-535: the same inside the lookup-table callback
LutBindObj(os, world, vol) ==
  LET os1 == newArray1D(os, "VOLUME", <<vol>>, 1)
  IN setAndReleaseParameter(os1, world, "volume", Len(os1))

\* the condition of line 268 that guards the call of rawReader.open
RawConfigured == g_dims[1] # 0 /\ g_dims[2] # 0 /\ g_dims[3] # 0
                   /\ g_bytesPerCell # 0

\* lines 263-315: the raw reader opens the file; field built from its data
SetupFieldRaw ==
  /\ pc = "scene"
  /\ RawConfigured
  /\ \E lut \in LutIds, range \in Ranges, u \in Indeterminate(objs) :
       LET data == RawGetField(g_dims, g_bytesPerCell, range)
       IN /\ lacActive' = setActiveLut(lut)
          /\ requested' = lut
          /\ rawOpened' = TRUE
          /\ m_sdata' = data
          /\ sdataVer' = sdataVer + 1
          /\ IF ~Dispatched(data) /\ u = WILD
             THEN /\ pc' = "crashed"
                  /\ objs' = newObject(objs, "field")
                  /\ UNCHANGED <<m_field, g_voxelRange>>
             ELSE /\ objs' = RawField(objs, data, g_dims, sdataVer', u)
                  /\ m_field' = Len(objs) + 1
                  /\ g_voxelRange' = data.dataRange
                  /\ pc' = "s_volume"
  /\ UNCHANGED <<worldCommits, g_device, g_dims, g_bytesPerCell, m_device,
                 m_world, niftiOpened, niftiSrc, volume, deviceRefs, trigger,
                 gens, rebuilds>>
  /\ queried' = "raw"
  /\ UNCHANGED <<sampled>>

\* lines 263-267, 316-362: the raw reader is not used or fails to open, the
\* medical-image reader opens the file; field built from its data
SetupFieldNifti ==
  /\ pc = "scene"
  /\ \E lut \in LutIds, u \in Indeterminate(objs), file \in NiftiFiles :
       LET data == NiftiGetField(TRUE, file, setActiveLut(lut))
       IN /\ lacActive' = setActiveLut(lut)
          /\ requested' = lut
          /\ niftiOpened' = TRUE
          /\ niftiSrc' = file
          /\ m_sdata' = data
          /\ sdataVer' = sdataVer + 1
          /\ IF ~Dispatched(data) /\ u = WILD
             THEN /\ pc' = "crashed"
                  /\ objs' = newObject(objs, "field")
                  /\ UNCHANGED <<m_field, g_voxelRange>>
             ELSE /\ objs' = NiftiField(objs, data, sdataVer', u)
                  /\ m_field' = Len(objs) + 1
                  /\ g_voxelRange' = data.dataRange
                  /\ pc' = "s_volume"
  /\ UNCHANGED <<worldCommits, g_device, g_dims, g_bytesPerCell, m_device,
                 m_world, rawOpened, volume, deviceRefs, trigger, gens,
                 rebuilds>>
  /\ queried' = "nifti"
  /\ UNCHANGED <<sampled>>

\* lines 263-270, 317: neither reader opens the file; no field is built
SetupNoField ==
  /\ pc = "scene"
  /\ \E lut \in LutIds : /\ lacActive' = setActiveLut(lut)
                         /\ requested' = lut
  /\ pc' = "s_volume"
  /\ UNCHANGED <<objs, worldCommits, g_device, g_dims, g_bytesPerCell,
                 g_voxelRange, m_device, m_world, m_field, m_sdata, sdataVer,
                 rawOpened, niftiOpened, niftiSrc, volume, deviceRefs,
                 trigger, gens, rebuilds>>
  /\ UNCHANGED <<queried, sampled>>

\* lines 367-394
SetupVolume ==
  /\ pc = "s_volume"
  /\ objs' = SetupVolumeObj(objs, m_field, g_voxelRange)
  /\ volume' = Len(objs) + 1
  /\ pc' = "s_bind"
  /\ UNCHANGED <<worldCommits, g_device, g_dims, g_bytesPerCell,
                 g_voxelRange, m_device, m_world, m_field, m_sdata, sdataVer,
                 lacActive, rawOpened, niftiOpened, niftiSrc, deviceRefs,
                 trigger, gens, rebuilds>>
  /\ UNCHANGED <<requested, queried, sampled>>

\* lines 397-398
SetupBind ==
  /\ pc = "s_bind"
  /\ objs' = SetupBindObj(objs, m_world, volume)
  /\ pc' = "s_release"
  /\ UNCHANGED <<worldCommits, g_device, g_dims, g_bytesPerCell,
                 g_voxelRange, m_device, m_world, m_field, m_sdata, sdataVer,
                 lacActive, rawOpened, niftiOpened, niftiSrc, volume,
                 deviceRefs, trigger, gens, rebuilds>>
  /\ UNCHANGED <<requested, queried, sampled>>

\* line 399
SetupReleaseVolume ==
  /\ pc = "s_release"
  /\ objs' = release(objs, volume)
  /\ pc' = "s_commit"
  /\ UNCHANGED <<worldCommits, g_device, g_dims, g_bytesPerCell,
                 g_voxelRange, m_device, m_world, m_field, m_sdata, sdataVer,
                 lacActive, rawOpened, niftiOpened, niftiSrc, volume,
                 deviceRefs, trigger, gens, rebuilds>>
  /\ UNCHANGED <<requested, queried, sampled>>

\* the history entry of a completed trigger: what it built and from what
Generation(trg, fld, vol, data) ==
  [trigger |-> trg, field |-> fld, volume |-> vol, sdata |-> data]

\* lines 402-560: commit the world; the windows and callbacks are wired and
\* setupWindows returns to the main loop
SetupCommitWorld ==
  /\ pc = "s_commit"
  /\ objs' = commitParameters(objs, m_world)
  /\ worldCommits' = worldCommits + 1
  /\ gens' = Append(gens, Generation("startup", m_field, volume, m_sdata))
  /\ volume' = NULL
  /\ trigger' = "none"
  /\ pc' = "idle"
  /\ UNCHANGED <<g_device, g_dims, g_bytesPerCell, g_voxelRange, m_device,
                 m_world, m_field, m_sdata, sdataVer, lacActive, rawOpened,
                 niftiOpened, niftiSrc, deviceRefs, rebuilds>>
  /\ UNCHANGED <<requested, queried, sampled>>

\* UpdateLacLut asking the reader before the selection is made active
UpdateLacLut_QueryFirst ==
  /\ pc = "idle"
  /\ rebuilds < MaxRebuilds
  /\ \E lacLutId \in LutIds :
       /\ requested' = lacLutId
       /\ lacActive' = setActiveLut(lacLutId)
       /\ m_sdata' = NiftiGetField(niftiOpened, niftiSrc, lacActive)
  /\ sdataVer' = sdataVer + 1
  /\ rebuilds' = rebuilds + 1
  /\ trigger' = "lut"
  /\ pc' = "r_field"
  /\ UNCHANGED <<objs, worldCommits, g_device, g_dims, g_bytesPerCell,
                 g_voxelRange, m_device, m_world, m_field, rawOpened,
                 niftiOpened, niftiSrc, volume, deviceRefs, gens>>
  /\ queried' = "nifti"
  /\ sampled' = NULL

\* ------------------------------ the callback of setUpdateLacLutCallback
\* lines 453-457: the selection becomes active and the medical-image
\* reader is asked for the field
UpdateLacLut ==
  /\ pc = "idle"
  /\ rebuilds < MaxRebuilds
  /\ \E lacLutId \in LutIds :
       /\ requested' = lacLutId
       /\ lacActive' = setActiveLut(lacLutId)
       /\ m_sdata' = NiftiGetField(niftiOpened, niftiSrc,
                                   setActiveLut(lacLutId))
  /\ sdataVer' = sdataVer + 1
  /\ rebuilds' = rebuilds + 1
  /\ trigger' = "lut"
  /\ pc' = "r_field"
  /\ UNCHANGED <<objs, worldCommits, g_device, g_dims, g_bytesPerCell,
                 g_voxelRange, m_device, m_world, m_field, rawOpened,
                 niftiOpened, niftiSrc, volume, deviceRefs, gens>>
  /\ queried' = "nifti"
  /\ sampled' = NULL

\* RebuildField without the update of g_voxelRange
RebuildField_StaleRange ==
  /\ pc = "r_field"
  /\ \E u \in Indeterminate(objs) :
       IF ~Dispatched(m_sdata) /\ u = WILD
       THEN /\ pc' = "crashed"
            /\ objs' = newObject(objs, "field")
            /\ UNCHANGED <<m_field, g_voxelRange>>
       ELSE /\ objs' = LutField(objs, m_sdata, sdataVer, u)
            /\ m_field' = Len(objs) + 1
            /\ g_voxelRange' = g_voxelRange
            /\ pc' = "r_volume"
  /\ UNCHANGED <<worldCommits, g_device, g_dims, g_bytesPerCell, m_device,
                 m_world, m_sdata, sdataVer, lacActive, rawOpened,
                 niftiOpened, niftiSrc, volume, deviceRefs, trigger, gens,
                 rebuilds>>
  /\ UNCHANGED <<requested, queried, sampled>>

\* lines 459-499
RebuildField ==
  /\ pc = "r_field"
  /\ \E u \in Indeterminate(objs) :
       IF ~Dispatched(m_sdata) /\ u = WILD
       THEN /\ pc' = "crashed"
            /\ objs' = newObject(objs, "field")
            /\ UNCHANGED <<m_field, g_voxelRange>>
       ELSE /\ objs' = LutField(objs, m_sdata, sdataVer, u)
            /\ m_field' = Len(objs) + 1
            /\ g_voxelRange' = m_sdata.dataRange
            /\ pc' = "r_volume"
  /\ UNCHANGED <<worldCommits, g_device, g_dims, g_bytesPerCell, m_device,
                 m_world, m_sdata, sdataVer, lacActive, rawOpened,
                 niftiOpened, niftiSrc, volume, deviceRefs, trigger, gens,
                 rebuilds>>
  /\ UNCHANGED <<requested, queried, sampled>>

\* RebuildVolume widening the value range of the volume bound before
RebuildVolume_WidensRange ==
  /\ pc = "r_volume"
  /\ LET bound == objs[objs[m_world].current.volume].items[1]
         old == objs[bound].current.valueRange
         lo == IF old[1] < g_voxelRange[1] THEN old[1] ELSE g_voxelRange[1]
         hi == IF old[2] > g_voxelRange[2] THEN old[2] ELSE g_voxelRange[2]
     IN objs' = LutVolumeObj(objs, m_field, <<lo, hi>>)
  /\ volume' = Len(objs) + 1
  /\ pc' = "r_bind"
  /\ UNCHANGED <<worldCommits, g_device, g_dims, g_bytesPerCell,
                 g_voxelRange, m_device, m_world, m_field, m_sdata, sdataVer,
                 lacActive, rawOpened, niftiOpened, niftiSrc, deviceRefs,
                 trigger, gens, rebuilds>>
  /\ UNCHANGED <<requested, queried, sampled>>

\* lines 503-531
RebuildVolume ==
  /\ pc = "r_volume"
  /\ objs' = LutVolumeObj(objs, m_field, g_voxelRange)
  /\ volume' = Len(objs) + 1
  /\ pc' = "r_bind"
  /\ UNCHANGED <<worldCommits, g_device, g_dims, g_bytesPerCell,
                 g_voxelRange, m_device, m_world, m_field, m_sdata, sdataVer,
                 lacActive, rawOpened, niftiOpened, niftiSrc, deviceRefs,
                 trigger, gens, rebuilds>>
  /\ UNCHANGED <<requested, queried, sampled>>

\* lines 534-535
RebuildBind ==
  /\ pc = "r_bind"
  /\ objs' = LutBindObj(objs, m_world, volume)
  /\ pc' = "r_release"
  /\ UNCHANGED <<worldCommits, g_device, g_dims, g_bytesPerCell,
                 g_voxelRange, m_device, m_world, m_field, m_sdata, sdataVer,
                 lacActive, rawOpened, niftiOpened, niftiSrc, volume,
                 deviceRefs, trigger, gens, rebuilds>>
  /\ UNCHANGED <<requested, queried, sampled>>

\* line 536
RebuildReleaseVolume ==
  /\ pc = "r_release"
  /\ objs' = release(objs, volume)
  /\ pc' = "r_commit"
  /\ UNCHANGED <<worldCommits, g_device, g_dims, g_bytesPerCell,
                 g_voxelRange, m_device, m_world, m_field, m_sdata, sdataVer,
                 lacActive, rawOpened, niftiOpened, niftiSrc, volume,
                 deviceRefs, trigger, gens, rebuilds>>
  /\ UNCHANGED <<requested, queried, sampled>>

\* RebuildCommitWorld discarding the StructuredField once it is consumed
RebuildCommitWorld_DiscardsField ==
  /\ pc = "r_commit"
  /\ objs' = commitParameters(objs, m_world)
  /\ worldCommits' = worldCommits + 1
  /\ gens' = Append(gens, Generation("lut", m_field, volume, m_sdata))
  /\ volume' = NULL
  /\ trigger' = "none"
  /\ pc' = "idle"
  /\ m_sdata' = EmptyField
  /\ sdataVer' = sdataVer + 1
  /\ UNCHANGED <<g_device, g_dims, g_bytesPerCell, g_voxelRange, m_device,
                 m_world, m_field, lacActive, rawOpened,
                 niftiOpened, niftiSrc, deviceRefs, rebuilds>>
  /\ UNCHANGED <<requested, queried, sampled>>

\* lines 539-541: commit the world; the callback returns
RebuildCommitWorld ==
  /\ pc = "r_commit"
  /\ objs' = commitParameters(objs, m_world)
  /\ worldCommits' = worldCommits + 1
  /\ gens' = Append(gens, Generation("lut", m_field, volume, m_sdata))
  /\ volume' = NULL
  /\ trigger' = "none"
  /\ pc' = "idle"
  /\ UNCHANGED <<g_device, g_dims, g_bytesPerCell, g_voxelRange, m_device,
                 m_world, m_field, m_sdata, sdataVer, lacActive, rawOpened,
                 niftiOpened, niftiSrc, deviceRefs, rebuilds>>
  /\ UNCHANGED <<requested, queried, sampled>>

\* ------------------------------------------------------- the render loop
\* between two handlers the viewport given the world at line 436 draws a
\* frame: it reads the volume list committed on the world
RenderFrame ==
  /\ pc = "idle"
  /\ sampled = NULL
  /\ "volume" \in DOMAIN objs[m_world].current
  /\ sampled' = objs[objs[m_world].current.volume].items[1]
  /\ UNCHANGED <<pc, objs, worldCommits, g_device, g_dims, g_bytesPerCell,
                 g_voxelRange, m_device, m_world, m_field, m_sdata, sdataVer,
                 lacActive, rawOpened, niftiOpened, niftiSrc, volume,
                 deviceRefs, trigger, gens, rebuilds, requested, queried>>

\* ------------------------------------------------ Application::teardown
\* line 581
TeardownField ==
  /\ pc = "idle"
  /\ objs' = release(objs, m_field)
  /\ pc' = "t_world"
  /\ UNCHANGED <<worldCommits, g_device, g_dims, g_bytesPerCell,
                 g_voxelRange, m_device, m_world, m_field, m_sdata, sdataVer,
                 lacActive, rawOpened, niftiOpened, niftiSrc, volume,
                 deviceRefs, trigger, gens, rebuilds>>
  /\ sampled' = NULL
  /\ UNCHANGED <<requested, queried>>

\* line 582
TeardownWorld ==
  /\ pc = "t_world"
  /\ objs' = release(objs, m_world)
  /\ pc' = "t_device"
  /\ UNCHANGED <<worldCommits, g_device, g_dims, g_bytesPerCell,
                 g_voxelRange, m_device, m_world, m_field, m_sdata, sdataVer,
                 lacActive, rawOpened, niftiOpened, niftiSrc, volume,
                 deviceRefs, trigger, gens, rebuilds>>
  /\ UNCHANGED <<requested, queried, sampled>>

\* lines 583-584
TeardownDevice ==
  /\ pc = "t_device"
  /\ deviceRefs' = deviceRefs - 1
  /\ pc' = "down"
  /\ UNCHANGED <<objs, worldCommits, g_device, g_dims, g_bytesPerCell,
                 g_voxelRange, m_device, m_world, m_field, m_sdata, sdataVer,
                 lacActive, rawOpened, niftiOpened, niftiSrc, volume, trigger,
                 gens, rebuilds>>
  /\ UNCHANGED <<requested, queried, sampled>>

\* a debug device that wraps no device forwards a call to the null device;
\* the library faults
LibraryFault ==
  /\ g_device = "dbg_nowrap"
  /\ pc \in {"scene", "s_volume", "s_bind", "s_release", "s_commit",
             "r_field", "r_volume", "r_bind", "r_release", "r_commit",
             "t_world", "t_device"}
  /\ pc' = "crashed"
  /\ UNCHANGED <<objs, worldCommits, g_device, g_dims, g_bytesPerCell,
                 g_voxelRange, m_device, m_world, m_field, m_sdata, sdataVer,
                 lacActive, rawOpened, niftiOpened, niftiSrc, volume,
                 deviceRefs, trigger, gens, rebuilds>>
  /\ UNCHANGED <<requested, queried, sampled>>

Next ==
  \/ SetupGuess
  \/ SetupANARI
  \/ SetupFieldRaw
  \/ SetupFieldNifti
  \/ SetupNoField
  \/ SetupVolume
  \/ SetupBind
  \/ SetupReleaseVolume
  \/ SetupCommitWorld
  \/ UpdateLacLut
  \/ RebuildField
  \/ RebuildVolume
  \/ RebuildBind
  \/ RebuildReleaseVolume
  \/ RebuildCommitWorld
  \/ RenderFrame
  \/ TeardownField
  \/ TeardownWorld
  \/ TeardownDevice
  \/ LibraryFault

Spec == Init /\ [][Next]_vars

\* ------------------------------------------------- observations of a state
Handles == 1..Len(objs)
FieldHandles == {o \in Handles : objs[o].kind = "field"}
VolumeHandles == {o \in Handles : objs[o].kind = "volume"}

\* the volume list a renderer sampling the world sees: the committed
\* "volume" parameter of m_state.world
BoundVolumes ==
  IF m_world = NULL \/ "volume" \notin DOMAIN objs[m_world].current
  THEN <<>>
  ELSE objs[objs[m_world].current.volume].items

\* the volume list staged on the world, committed or not
StagedVolumes ==
  IF m_world = NULL \/ "volume" \notin DOMAIN objs[m_world].staged
  THEN <<>>
  ELSE objs[objs[m_world].staged.volume].items

\* the application still holds its reference to the world
WorldHeld == m_world # NULL /\ objs[m_world].refs > 0

\* a trigger whose source delivered a field of a supported cell width
Successful(g) ==
  g.field # NULL /\ g.sdata.valid /\ Dispatched(g.sdata)

AllSuccessful == \A k \in 1..Len(gens) : Successful(gens[k])

SetupPcs == {"anari", "scene", "s_volume", "s_bind", "s_release", "s_commit"}
RebuildPcs == {"r_field", "r_volume", "r_bind", "r_release", "r_commit"}
TeardownPcs == {"t_world", "t_device"}

\* ------------------------------------------------------------------ C1
\* C1: once the N-th consecutive successful build has completed, each of
\* the N-1 earlier generations has had its FieldHandle and its VolumeHandle
\* released by the application, and the objects of the latest generation
\* are still alive.
C1_PriorGenerationsReleased ==
  (pc = "idle" /\ AllSuccessful) =>
    /\ \A k \in 1..(Len(gens) - 1) :
         /\ objs[gens[k].field].rels = 1
         /\ objs[gens[k].volume].rels = 1
    /\ gens[Len(gens)].field \in Alive(objs)
    /\ gens[Len(gens)].volume \in Alive(objs)

\* ------------------------------------------------------------------ C2
\* C2: after teardown following startup and successful rebuilds, the
\* application holds no reference to any field or volume it ever created.
C2_NoLeakAfterTeardown ==
  (pc = "down" /\ AllSuccessful) =>
    \A o \in FieldHandles \cup VolumeHandles : objs[o].refs = 0

\* ------------------------------------------------------------------ C3
\* C3: no FieldHandle and no VolumeHandle is released by the application
\* more than once; a release is never made on a reference it does not hold.
C3_NoDoubleRelease ==
  \A o \in FieldHandles \cup VolumeHandles :
    objs[o].rels <= 1 /\ objs[o].refs >= 0

\* ------------------------------------------------------------------ C4
\* C4: while a lookup-table trigger whose source signalled failure is being
\* handled, no step creates an object, releases a handle or changes the
\* volume bound in the world.
C4_FailedRebuildAborts ==
  [][(trigger = "lut" /\ ~m_sdata.valid) =>
       /\ Len(objs') = Len(objs)
       /\ \A o \in Handles : objs'[o].rels = objs[o].rels
       /\ BoundVolumes' = BoundVolumes]_vars

\* ------------------------------------------------------------------ C5
\* the handle of the volume object created last
NewestVolume ==
  CHOOSE v \in VolumeHandles : \A w \in VolumeHandles : w <= v

\* C5: once the world has been committed, and for as long as the
\* application holds it, its committed volume list holds exactly one
\* volume; when a build has completed that volume is the one the build
\* created.
C5_ExactlyOneVolumeBound ==
  (worldCommits > 0 /\ WorldHeld) =>
    /\ Len(BoundVolumes) = 1
    /\ BoundVolumes[1] \in VolumeHandles
    /\ pc = "idle" => BoundVolumes = <<NewestVolume>>

C5_Witness ==
  /\ pc = "idle"
  /\ rebuilds = 2
  /\ Cardinality(VolumeHandles) = 3
  /\ BoundVolumes = <<NewestVolume>>

\* ------------------------------------------------------------------ C6
\* a handle of generation g has been released by the application
Released(g) ==
  \/ g.field # NULL /\ objs[g.field].rels > 0
  \/ objs[g.volume].rels > 0

\* C6 as stated: during and after a rebuild, a generation whose handles
\* have been released has a successor that is bound; a generation is
\* bound at every step.
C6_ReleaseAfterSuccessorBound ==
  (rebuilds >= 1 /\ pc \in RebuildPcs \cup {"idle"} /\ AllSuccessful) =>
    /\ \A k \in 1..Len(gens) : Released(gens[k]) => k < Len(gens)
    /\ Len(BoundVolumes) = 1

\* volume arrays: the arrays whose items are volume handles
VolumeArrays == {a \in Handles : objs[a].elemType = "VOLUME"}

\* C6 as amended: the application gives up its reference to a volume in
\* that volume's own build, after the volume has been placed in the volume
\* array staged on the world and before the world is committed; the volume
\* bound in the world is alive at every step from the first commit of the
\* world on, while the application holds the world.
C6_VolumeReleasedAfterStaging ==
  /\ \A v \in VolumeHandles :
       objs[v].rels > 0 => \E a \in VolumeArrays : objs[a].items = <<v>>
  /\ pc \in {"s_bind", "r_bind", "s_release", "r_release"} =>
       objs[volume].rels = 0
  /\ pc \in {"s_commit", "r_commit"} =>
       objs[volume].rels = 1 /\ StagedVolumes = <<volume>>
  /\ (worldCommits > 0 /\ WorldHeld) =>
       /\ BoundVolumes # <<>>
       /\ \A i \in DOMAIN BoundVolumes : BoundVolumes[i] \in Alive(objs)

C6_Witness ==
  /\ pc = "r_commit"
  /\ objs[volume].rels = 1
  /\ objs[volume].refs = 0
  /\ BoundVolumes # <<volume>>
  /\ BoundVolumes[1] \in Alive(objs)
  /\ volume \in Alive(objs)

MatchingType(bpc) ==
  IF bpc = 1 THEN "UFIXED8" ELSE IF bpc = 2 THEN "UFIXED16" ELSE "FLOAT32"

\* number of elements of an array
ArrayLength(a) == a.ext[1] * a.ext[2] * a.ext[3]

\* C8: every completed build whose StructuredField has 1, 2 or 4 bytes per
\* cell committed on its field a data array of the matching element type
\* whose extents are the StructuredField's dims, dimX*dimY*dimZ elements.
C8_ArrayMatchesField ==
  \A k \in 1..Len(gens) :
    (gens[k].field # NULL /\ Dispatched(gens[k].sdata)) =>
      LET d == gens[k].sdata
          f == objs[gens[k].field]
      IN /\ "data" \in DOMAIN f.current
         /\ f.current.data \in Handles
         /\ objs[f.current.data].kind = "array"
         /\ objs[f.current.data].elemType = MatchingType(d.bytesPerCell)
         /\ objs[f.current.data].ext = <<d.dimX, d.dimY, d.dimZ>>
         /\ ArrayLength(objs[f.current.data]) = d.dimX * d.dimY * d.dimZ

C8_Witness ==
  /\ Len(gens) = 2
  /\ gens[1].trigger = "startup"
  /\ gens[2].trigger = "lut"
  /\ gens[1].sdata.bytesPerCell = 2
  /\ gens[2].sdata.bytesPerCell = 2
  /\ objs[objs[gens[2].field].current.data].elemType = "UFIXED16"
  /\ ArrayLength(objs[objs[gens[2].field].current.data]) > 1

\* ------------------------------------------------------------------ C9
\* C9: when a build that obtained a field has completed, the volume bound
\* in the world wraps m_state.field and its committed valueRange is the
\* dataRange of the StructuredField the field was built from.
C9_ValueRangePropagated ==
  (pc = "idle" /\ (rawOpened \/ niftiOpened)) =>
    LET v == objs[BoundVolumes[1]]
    IN /\ v.current.field = m_field
       /\ v.current.valueRange = m_sdata.dataRange
       /\ v.current.valueRange = gens[Len(gens)].sdata.dataRange

C9_Witness ==
  /\ pc = "idle"
  /\ rebuilds >= 1
  /\ gens[Len(gens)].sdata.dataRange # gens[Len(gens) - 1].sdata.dataRange
  /\ objs[BoundVolumes[1]].current.valueRange = <<-1, 3>>

\* ------------------------------------------------------------------ C10
\* the library or the base device could not be loaded: the process has left
\* with no device, or runs on a debug device that wraps no device
LoadFailed ==
  \/ pc \in {"exited", "crashed"} /\ g_device = "null"
  \/ g_device = "dbg_nowrap"

\* C10: when the library or the device could not be loaded, no world, field
\* or volume object exists.
C10_NoSceneWithoutDevice == LoadFailed => objs = <<>>

\* ------------------------------------------------------------------ C11
\* C11: after a field build from a StructuredField whose bytesPerCell is
\* none of 1, 2, 4, the field has no "data" parameter (staged or committed)
\* and the build has released nothing through it.
C11_UnsupportedWidthLeavesDataUnset ==
  (pc \in {"s_volume", "r_volume"} /\ m_field # NULL
     /\ ~Dispatched(m_sdata)) =>
    /\ "data" \notin DOMAIN objs[m_field].staged
    /\ "data" \notin DOMAIN objs[m_field].current
    /\ objs[m_field].rels = 0

\* ------------------------------------------------------------------ C12
\* the value range committed on the volume of a generation
BuiltRange(g) == objs[g.volume].current.valueRange

\* the element type of the array committed as the data of a generation's
\* field; "none" when the field has no array
ElementKind(g) ==
  IF g.field = NULL \/ "data" \notin DOMAIN objs[g.field].current
  THEN "none"
  ELSE LET a == objs[g.field].current.data
       IN IF a \in Handles /\ objs[a].kind = "array"
          THEN objs[a].elemType ELSE "none"

\* the k-th build took its field from the medical-image reader
FromMedicalImage(k) == gens[k].trigger = "lut" \/ niftiOpened

\* C12: two builds from the medical-image reader that were given the same
\* field (what the unchanged source yields under one lookup-table index)
\* have the same value range and the same element kind, whatever was built
\* between or before them.
C12_SameIndexSameResult ==
  \A j, k \in 1..Len(gens) :
    (j < k /\ FromMedicalImage(j) /\ FromMedicalImage(k)
       /\ gens[j].sdata = gens[k].sdata) =>
      /\ BuiltRange(gens[j]) = BuiltRange(gens[k])
      /\ ElementKind(gens[j]) = ElementKind(gens[k])

C12_Witness ==
  /\ pc = "idle"
  /\ Len(gens) = 3
  /\ niftiOpened
  /\ lacActive = 0
  /\ gens[3].sdata = niftiSrc[0]
  /\ gens[1].sdata = gens[3].sdata
  /\ gens[2].sdata.dataRange # gens[3].sdata.dataRange
  /\ Dispatched(gens[3].sdata)
  /\ BuiltRange(gens[3]) = <<-1, 3>>
  /\ ElementKind(gens[3]) = "UFIXED16"

\* ------------------------------------------------------------------ C13
\* C13: when startup has run and no reader could open the file, no volume
\* object has been created and no volume is staged or bound in the world.
C13_NoSourceNoVolume ==
  (pc \in {"s_volume", "s_bind", "s_release", "s_commit", "idle"}
     /\ rebuilds = 0 /\ ~rawOpened /\ ~niftiOpened) =>
    /\ VolumeHandles = {}
    /\ StagedVolumes = <<>>
    /\ BoundVolumes = <<>>

\* ------------------------------------------------------------------ C14
\* C14: the volume a frame samples from the world wraps a field handle,
\* and the application has made no release call on that field.
C14_FrameFindsLiveField ==
  sampled # NULL =>
    LET f == objs[sampled].current.field
    IN f # NULL /\ objs[f].rels = 0

\* ------------------------------------------------------------------ C15
\* C15: from the moment the lookup-table handler has queried the source
\* until the next trigger, the catalog's active index is the index the
\* handler was given and the field held is the one the source yields under
\* that index; when the handler has returned, the volume bound in the world
\* is the one built from that field.
C15_SelectionActiveBeforeQuery ==
  /\ (pc \in RebuildPcs \/ (pc = "idle" /\ rebuilds >= 1)) =>
       /\ lacActive = requested
       /\ m_sdata = NiftiGetField(niftiOpened, niftiSrc, requested)
  /\ (pc = "idle" /\ rebuilds >= 1) =>
       LET g == gens[Len(gens)]
       IN /\ g.trigger = "lut"
          /\ g.sdata = NiftiGetField(niftiOpened, niftiSrc, requested)
          /\ BoundVolumes = <<g.volume>>
          /\ objs[g.volume].current.field = g.field
          /\ objs[g.volume].current.valueRange = g.sdata.dataRange

C15_Witness ==
  /\ pc = "idle"
  /\ rebuilds >= 1
  /\ niftiOpened
  /\ requested = 1
  /\ lacActive = 1
  /\ gens[Len(gens)].sdata = niftiSrc[1]
  /\ gens[Len(gens) - 1].sdata # gens[Len(gens)].sdata
  /\ BoundVolumes = <<gens[Len(gens)].volume>>

\* ------------------------------------------------------------------ C16
\* C16: the reader a lookup-table rebuild has asked for its field is one
\* that opened the file at startup.
C16_RebuildQueriesOpenedSource ==
  rebuilds >= 1 =>
    \/ queried = "raw" /\ rawOpened
    \/ queried = "nifti" /\ niftiOpened

\* ------------------------------------------------------------------ C17
\* the vector of a StructuredField that holds cells of the given width
HostVector(bpc) ==
  IF bpc = 1 THEN "dataUI8" ELSE IF bpc = 2 THEN "dataUI16" ELSE "dataF32"

\* C17: when a frame samples the world, the data array of the sampled
\* volume's field (if the field has one) was created over the vector of
\* m_state.sdata as it stands now: the same vector, not assigned since.
C17_HostBufferOfBoundFieldCurrent ==
  (sampled # NULL /\ objs[sampled].current.field # NULL) =>
    LET f == objs[sampled].current.field
        a == IF "data" \in DOMAIN objs[f].current
             THEN objs[f].current.data ELSE NULL
    IN (a \in Handles /\ objs[a].kind = "array") =>
         /\ f = m_field
         /\ objs[a].mem.ver = sdataVer
         /\ objs[a].mem.vec = HostVector(m_sdata.bytesPerCell)

C17_Witness ==
  /\ sampled # NULL
  /\ rebuilds = 2
  /\ Dispatched(m_sdata)
  /\ sampled = gens[3].volume
  /\ LET a == objs[objs[sampled].current.field].current.data
     IN /\ objs[a].kind = "array"
        /\ objs[a].mem = [vec |-> "dataF32", ver |-> 3]
  /\ sdataVer = 3

\* ------------------------------------------------------------------ C18
\* what a completed build left behind, handles aside: the field's array
\* and filter, the volume's parameters and the release made on the volume
GenerationShape(g) ==
  LET f == objs[g.field]
      v == objs[g.volume]
  IN [data |-> IF ElementKind(g) = "none" THEN <<>>
               ELSE <<objs[f.current.data].elemType,
                      objs[f.current.data].ext>>,
      filter |-> f.current.filter,
      wraps |-> v.current.value = g.field /\ v.current.field = g.field,
      color |-> <<objs[v.current.color].elemType,
                  objs[v.current.color].ext>>,
      opacity |-> <<objs[v.current.opacity].elemType,
                    objs[v.current.opacity].ext>>,
      valueRange |-> v.current.valueRange,
      volumeRels |-> v.rels]

\* a startup build and a rebuild given the same StructuredField of a
\* dispatched cell width left generations of the same shape
C18_SameGeneration ==
  \A j, k \in 1..Len(gens) :
    (gens[j].trigger = "startup" /\ gens[k].trigger = "lut"
       /\ gens[j].field # NULL /\ gens[j].sdata = gens[k].sdata
       /\ Dispatched(gens[j].sdata)) =>
      GenerationShape(gens[j]) = GenerationShape(gens[k])

\* every step of the startup build changes the device objects exactly as
\* the corresponding step of the lookup-table rebuild would on the same
\* objects, field and range
C18_SameSteps ==
  /\ (pc = "scene" /\ pc' = "s_volume" /\ m_field' # NULL) =>
       \E u \in Indeterminate(objs) \ {WILD} :
         objs' = LutField(objs, m_sdata', sdataVer', u)
  /\ (pc = "s_volume" /\ pc' = "s_bind") =>
       objs' = LutVolumeObj(objs, m_field, g_voxelRange)
  /\ (pc = "s_bind" /\ pc' = "s_release") =>
       objs' = LutBindObj(objs, m_world, volume)
  /\ (pc = "s_release" /\ pc' = "s_commit") =>
       objs' = release(objs, volume)
  /\ (pc = "s_commit" /\ pc' = "idle") =>
       objs' = commitParameters(objs, m_world)

\* C18: the startup build and the lookup-table rebuild are the same
\* operation: given the same StructuredField they make the same changes,
\* step by step, and leave generations of the same shape.
C18_StartupBuildIsRebuild ==
  []C18_SameGeneration /\ [][C18_SameSteps]_vars

C18_Witness ==
  /\ pc = "idle"
  /\ Len(gens) >= 2
  /\ gens[1].trigger = "startup"
  /\ gens[2].trigger = "lut"
  /\ gens[1].field # NULL
  /\ gens[1].sdata = gens[2].sdata
  /\ gens[1].sdata.bytesPerCell = 1
  /\ GenerationShape(gens[2]).data = <<"UFIXED8", <<MaxDim, 1, 1>>>>
  /\ GenerationShape(gens[1]) = GenerationShape(gens[2])

\* ------------------------------------------------------------------ C19
\* C19: teardown has released the current field (if any) once before it
\* releases the world, the world once before it releases the device, and
\* when the device has been released the application holds no reference
\* to any object created on it.
C19_TeardownOrder ==
  /\ (pc \in {"t_world", "t_device", "down"} /\ m_field # NULL) =>
       objs[m_field].rels = 1
  /\ pc = "t_world" => objs[m_world].rels = 0 /\ deviceRefs = 1
  /\ pc = "t_device" => objs[m_world].rels = 1 /\ deviceRefs = 1
  /\ pc = "down" =>
       /\ objs[m_world].rels = 1
       /\ deviceRefs = 0
       /\ \A o \in Handles : objs[o].refs = 0

====
